---- MODULE Spec2Model ----
(***************************************************************************)
(* The pipeline orchestrator of dashboard/lib/scraper-service.ts: the      *)
(* ScraperService singleton, the Run records it writes through prisma, the *)
(* startScraper calls in flight, the runFullPipeline invocations and the   *)
(* child processes they await.                                             *)
(*                                                                         *)
(* The service runs on one JavaScript thread: a handler runs without       *)
(* interruption up to its next `await`, so every action below is one such  *)
(* synchronous stretch.  A prisma call takes two steps after it is issued: *)
(* the store applies it (or fails), then the awaiting code continues.  A   *)
(* child process's 'close' resolves the runCommand promise and the awaiting*)
(* pipeline continues in the same turn (a microtask), so `close` carries   *)
(* the pipeline up to its next await.                                      *)
(***************************************************************************)
EXTENDS Integers, Sequences, FiniteSets, TLC

\* ----------------------------------------------------------------- bounds
\* startScraper invocations (manual calls and scheduler ticks together)
MaxCalls == 2
\* 'data' events of the child processes, all runs together
MaxChunks == 2
\* stopScraper calls whose return value is kept
MaxStops == 2
\* updateSchedulerConfig invocations
MaxUpdates == 2
\* getSchedulerConfig invocations
MaxGets == 2

\* -------------------------------------------------------------- constants
\* currentRunId = null (run ids are assigned from 1)
NoRun == 0
\* the runId of a rejected start
RejectedRunId == -1
\* the exit code of a 'close' event whose code is null (killed by a signal)
NullCode == -1
\* commandOutput.join(''), outputBuffer.join(''): text is a sequence of words
Texts == {<<"QR">>, <<"code">>}
ErrorPrefix == "[ERROR]"
Streams == {"stdout", "stderr"}
EventTypes == {"stdout", "stderr", "status", "complete"}
ExitCodes == {NullCode, 0, 1}
TriggerTypes == {"MANUAL", "SCHEDULED"}
NonTerminal == {"RUNNING", "ENRICHING", "PROCESSING"}
Terminal == {"COMPLETED", "FAILED", "AUTH_REQUIRED", "ENRICHMENT_FAILED", "PROCESSING_FAILED"}
Commands == {"scrape", "enrich", "process"}
\* cron expressions handed to startScheduler, and those cron.validate accepts
CronExprs == {"0 9,21 * * *", "not a cron"}
ValidCronExprs == {"0 9,21 * * *"}
\* scheduledTask = null
NoTask == [cronExpr |-> "", running |-> FALSE]
\* subscriber callbacks, and the event types on which each one throws
Callbacks == {"cbOk", "cbThrow"}
ThrowsOn == [cb \in Callbacks |-> IF cb = "cbThrow" THEN EventTypes ELSE {}]
\* error.message of what a subscriber throws and of a rejected prisma call
SubscriberError == <<"subscriber threw">>
StoreError == <<"store unavailable">>
NoError == <<>>
AuthMessage == <<"WhatsApp authentication required">>
AbortMessage == <<"Pipeline aborted by user">>

VARIABLES
    pipelineStep,    \* ScraperService.pipelineStep
    currentRunId,    \* ScraperService.currentRunId
    abortRequested,  \* ScraperService.abortRequested
    outputBuffer,    \* ScraperService.outputBuffer: array of chunks
    listeners,       \* ScraperService.listeners: a Set, in insertion order
    scheduledTask,   \* ScraperService.scheduledTask
    runs,            \* the scraperRun table: runs[id] is the record with that id
    calls,           \* the startScraper invocations, in the order they were made
    pipes,           \* pipes[id]: the runFullPipeline invocation for run id
    trace,           \* trace[id]: what run id did to the outside (spawns, events)
    schedulerConfig, \* the schedulerConfig table: at most the record with id 1
    updates,         \* the updateSchedulerConfig invocations, in the order made
    published,       \* the last event handed to broadcast on its own, as delivered
    stopLog,         \* what the stopScraper calls returned, where that is kept
    timers,          \* the number of cron tasks that were started and not stopped
    initCall,        \* the initScheduler invocation of the module load
    gets,            \* the getSchedulerConfig invocations, in the order made
    zombies,         \* runs whose command emitted 'error' and has yet to emit 'close'
    observed,        \* the last observer call and what it returned
    emitted          \* emitted[id]: the chunks run id's commands printed, as logged

\* the scheduler's start-up and reads, and the processes that failed to spawn
\* what observer calls returned and what each run's commands printed
probe == <<observed, emitted>>

side == <<initCall, gets, zombies, probe>>

\* the scheduler's configuration calls and the broadcaster taken on its own
aux == <<schedulerConfig, updates, published, timers, side>>

vars == <<pipelineStep, currentRunId, abortRequested, outputBuffer, listeners,
          scheduledTask, runs, calls, pipes, trace, aux, stopLog>>

\* ---------------------------------------------------------------- helpers
RECURSIVE Join(_)
Join(chunks) == IF chunks = <<>> THEN <<>> ELSE Head(chunks) \o Join(Tail(chunks))

\* String.prototype.includes on word sequences
Includes(text, part) ==
    \E i \in 0..(Len(text) - Len(part)) :
        \A j \in 1..Len(part) : text[i + j] = part[j]

\* code ?? 1
CodeOrOne(code) == IF code = NullCode THEN 1 ELSE code

isRunningScrapingOnly == pipelineStep = "SCRAPING"
isRunning == pipelineStep # "IDLE"

\* listeners.forEach((cb) => cb(output)): the callbacks invoked, in order, up to
\* and including the first one that throws, and whether the call threw
RECURSIVE Delivered(_, _)
Delivered(ls, type) ==
    IF ls = <<>> THEN <<>>
    ELSE IF type \in ThrowsOn[Head(ls)] THEN <<Head(ls)>>
    ELSE <<Head(ls)>> \o Delivered(Tail(ls), type)

broadcastThrows(type) ==
    LET d == Delivered(listeners, type)
    IN  d # <<>> /\ type \in ThrowsOn[d[Len(d)]]

\* scrapeResult.output.includes('scan QR code') || ...includes('QR code')
HasAuthMarker(output) ==
    Includes(output, <<"scan", "QR", "code">>) \/ Includes(output, <<"QR", "code">>)

Outcome(status, message, proceed) ==
    [finalStatus |-> status, errorMessage |-> message, proceed |-> proceed]

\* what the pipeline decides when the scrape command has resolved
ScrapeOutcomeCodeFirst(result, abort) ==
    IF result.code # 0
    THEN Outcome("FAILED", <<"Scraping failed with exit code", result.code>>, FALSE)
    ELSE IF HasAuthMarker(result.output)
    THEN Outcome("AUTH_REQUIRED", AuthMessage, FALSE)
    ELSE IF abort
    THEN Outcome("FAILED", AbortMessage, FALSE)
    ELSE Outcome("COMPLETED", NoError, TRUE)
ScrapeOutcome(result, abort) ==
    IF HasAuthMarker(result.output)
    THEN Outcome("AUTH_REQUIRED", AuthMessage, FALSE)
    ELSE IF result.code # 0
    THEN Outcome("FAILED", <<"Scraping failed with exit code", result.code>>, FALSE)
    ELSE IF abort
    THEN Outcome("FAILED", AbortMessage, FALSE)
    ELSE Outcome("COMPLETED", NoError, TRUE)

\* ... when the enrichment command has resolved
EnrichOutcomeGeneric(result, abort) ==
    IF result.code # 0
    THEN Outcome("FAILED", <<"Enrichment failed with exit code", result.code>>, FALSE)
    ELSE IF abort
    THEN Outcome("FAILED", AbortMessage, FALSE)
    ELSE Outcome("COMPLETED", NoError, TRUE)
EnrichOutcomeAbortFirst(result, abort) ==
    IF abort
    THEN Outcome("FAILED", AbortMessage, FALSE)
    ELSE IF result.code # 0
    THEN Outcome("ENRICHMENT_FAILED", <<"Enrichment failed with exit code", result.code>>, FALSE)
    ELSE Outcome("COMPLETED", NoError, TRUE)
EnrichOutcome(result, abort) ==
    IF result.code # 0
    THEN Outcome("ENRICHMENT_FAILED", <<"Enrichment failed with exit code", result.code>>, FALSE)
    ELSE IF abort
    THEN Outcome("FAILED", AbortMessage, FALSE)
    ELSE Outcome("COMPLETED", NoError, TRUE)

\* ... when the processing command has resolved (the abort flag is not read)
ProcessOutcomeIgnoreCode(result, abort) ==
    Outcome("COMPLETED", NoError, TRUE)
ProcessOutcome(result, abort) ==
    IF result.code # 0
    THEN Outcome("PROCESSING_FAILED", <<"Database processing failed with exit code", result.code>>, FALSE)
    ELSE Outcome("COMPLETED", NoError, TRUE)

\* the decimal digits, as the characters a text is made of next to its words
Digit == <<"0", "1", "2", "3", "4", "5", "6", "7", "8", "9">>
Digits == {Digit[i] : i \in 1..10}
DigitValue(d) == (CHOOSE i \in 1..10 : Digit[i] = d) - 1

\* \d+ from position i on: the position after the last digit of the run
RECURSIVE DigitsEnd(_, _)
DigitsEnd(text, i) ==
    IF i <= Len(text) /\ text[i] \in Digits THEN DigitsEnd(text, i + 1) ELSE i

parseIntLastDigit(digits) == DigitValue(digits[Len(digits)])
\* parseInt of a string of digits
RECURSIVE parseInt(_)
parseInt(digits) ==
    IF Len(digits) = 1 THEN DigitValue(digits[1])
    ELSE 10 * parseInt(SubSeq(digits, 1, Len(digits) - 1)) + DigitValue(digits[Len(digits)])

\* fullOutput.match(/(\d+) seller\(s\)/), tried from position i on: the capture
\* group of the leftmost match, <<>> for null
RECURSIVE MatchSellers(_, _)
MatchSellers(text, i) ==
    IF i > Len(text) THEN <<>>
    ELSE LET e == DigitsEnd(text, i) IN
         IF e > i /\ e <= Len(text) /\ text[e] = "seller(s)"
         THEN SubSeq(text, i, e - 1)
         ELSE MatchSellers(text, i + 1)

\* fullOutput.match(/Saved (\d+) products/), likewise
RECURSIVE MatchProducts(_, _)
MatchProducts(text, i) ==
    IF i > Len(text) THEN <<>>
    ELSE LET e == DigitsEnd(text, i + 1) IN
         IF text[i] = "Saved" /\ e > i + 1 /\ e <= Len(text) /\ text[e] = "products"
         THEN SubSeq(text, i + 1, e - 1)
         ELSE MatchProducts(text, i + 1)

\* sellersMatch ? parseInt(sellersMatch[1]) : 0
sellersProcessed(fullOutput) ==
    LET sellersMatch == MatchSellers(fullOutput, 1)
    IN  IF sellersMatch # <<>> THEN parseInt(sellersMatch) ELSE 0

\* productsMatch ? parseInt(productsMatch[1]) : 0
productsScraped(fullOutput) ==
    LET productsMatch == MatchProducts(fullOutput, 1)
    IN  IF productsMatch # <<>> THEN parseInt(productsMatch) ELSE 0

\* ------------------------------------------------------------------ state
\* the record as created: the counters are not among the created fields
NewRun(triggerType) ==
    [status |-> "RUNNING", triggerType |-> triggerType, completedAt |-> FALSE,
     output |-> <<>>, errorMessage |-> NoError,
     sellersProcessed |-> <<>>, productsScraped |-> <<>>]

\* the locals of one runFullPipeline invocation; pc names the await it is at,
\* and is the command's name while that command's process is in flight
NewPipe ==
    [pc |-> "notStarted", finalStatus |-> "COMPLETED", errorMessage |-> NoError,
     commandOutput |-> <<>>, fullOutput |-> <<>>]

NewTrace ==
    [spawned |-> <<>>, codes |-> <<>>, marker |-> FALSE, complete |-> <<>>,
     stopped |-> FALSE, chunks |-> 0]

\* initScheduler was not called yet; config is the record it has read or created
NoInit == [pc |-> "notCalled", config |-> <<>>]

\* no observer was called yet
\* of an observation, the field of the call's return type holds what it returned
NoObservation == [call |-> "", running |-> FALSE, step |-> "", runId |-> NoRun]

\* no event was handed to broadcast yet
NoPublish == [type |-> "", before |-> <<>>, to |-> <<>>, after |-> <<>>, threw |-> FALSE]

Init ==
    /\ pipelineStep = "IDLE"
    /\ currentRunId = NoRun
    /\ abortRequested = FALSE
    /\ outputBuffer = <<>>
    /\ listeners = <<>>
    /\ scheduledTask = NoTask
    /\ runs = <<>>
    /\ calls = <<>>
    /\ pipes = <<>>
    /\ trace = <<>>
    /\ schedulerConfig = <<>>
    /\ updates = <<>>
    /\ published = NoPublish
    /\ stopLog = <<>>
    /\ timers = 0
    /\ initCall = NoInit
    /\ gets = <<>>
    /\ zombies = {}
    /\ observed = NoObservation
    /\ emitted = [r \in 1..MaxCalls |-> <<>>]

RunIds == 1..Len(runs)
CallIds == 1..Len(calls)
InFlight(r) == pipes[r].pc \in Commands

\* the `finally` block up to its await: the arguments of the final update are
\* computed from the buffer as it is now, and the update is issued
Finalizing(p, status, message, buffer) ==
    [p EXCEPT !.pc = "final", !.finalStatus = status, !.errorMessage = message,
              !.commandOutput = <<>>, !.fullOutput = Join(buffer)]

\* ---------------------------------------------------------------- actions
\* startScraper up to `await prisma.scraperRun.create`
startScraper(triggerType) ==
    /\ Len(calls) < MaxCalls
    /\ calls' = Append(calls,
          IF isRunning
          THEN [triggerType |-> triggerType, pc |-> "returned", runId |-> RejectedRunId,
                error |-> <<"Pipeline is already running", pipelineStep>>,
                overlap |-> {}]
          ELSE [triggerType |-> triggerType, pc |-> "create", runId |-> NoRun,
                error |-> NoError,
                overlap |-> {c \in CallIds : calls[c].pc \in {"create", "created"}}])
    /\ UNCHANGED <<pipelineStep, currentRunId, abortRequested, outputBuffer, listeners,
                   scheduledTask, runs, pipes, trace,
                   aux, stopLog>>

\* the store applies the create: the new record gets the next id
createRun(c) ==
    /\ calls[c].pc = "create"
    /\ runs' = Append(runs, NewRun(calls[c].triggerType))
    /\ pipes' = Append(pipes, NewPipe)
    /\ trace' = Append(trace, NewTrace)
    /\ calls' = [calls EXCEPT ![c].pc = "created", ![c].runId = Len(runs) + 1]
    /\ UNCHANGED <<pipelineStep, currentRunId, abortRequested, outputBuffer, listeners,
                   scheduledTask,
                   aux, stopLog>>

\* the create rejects: startScraper throws, nothing was assigned
createFails(c) ==
    /\ calls[c].pc = "create"
    /\ calls' = [calls EXCEPT ![c].pc = "threw", ![c].error = StoreError]
    /\ UNCHANGED <<pipelineStep, currentRunId, abortRequested, outputBuffer, listeners,
                   scheduledTask, runs, pipes, trace,
                   aux, stopLog>>

launchPipelineKeepsAbort(c) ==
    /\ calls[c].pc = "created"
    /\ LET r == calls[c].runId IN
        /\ currentRunId' = r
        /\ outputBuffer' = <<>>
        /\ UNCHANGED abortRequested
        /\ pipelineStep' = "SCRAPING"
        /\ IF broadcastThrows("status")
           THEN /\ pipes' = [pipes EXCEPT ![r] =
                                Finalizing(NewPipe, "FAILED", SubscriberError, <<>>)]
                /\ UNCHANGED trace
           ELSE /\ pipes' = [pipes EXCEPT ![r].pc = "scrape"]
                /\ trace' = [trace EXCEPT ![r].spawned = Append(@, "scrape")]
    /\ calls' = [calls EXCEPT ![c].pc = "returned"]
    /\ UNCHANGED <<listeners, scheduledTask, runs,
                   aux, stopLog>>
launchPipelineKeepsRunId(c) ==
    /\ calls[c].pc = "created"
    /\ LET r == calls[c].runId IN
        /\ UNCHANGED currentRunId
        /\ outputBuffer' = <<>>
        /\ abortRequested' = FALSE
        /\ pipelineStep' = "SCRAPING"
        /\ IF broadcastThrows("status")
           THEN /\ pipes' = [pipes EXCEPT ![r] =
                                Finalizing(NewPipe, "FAILED", SubscriberError, <<>>)]
                /\ UNCHANGED trace
           ELSE /\ pipes' = [pipes EXCEPT ![r].pc = "scrape"]
                /\ trace' = [trace EXCEPT ![r].spawned = Append(@, "scrape")]
    /\ calls' = [calls EXCEPT ![c].pc = "returned"]
    /\ UNCHANGED <<listeners, scheduledTask, runs,
                   aux, stopLog>>
\* startScraper after the create, and runFullPipeline up to its first await
launchPipeline(c) ==
    /\ calls[c].pc = "created"
    /\ LET r == calls[c].runId IN
        /\ currentRunId' = r
        /\ outputBuffer' = <<>>
        /\ abortRequested' = FALSE
        /\ pipelineStep' = "SCRAPING"
        /\ IF broadcastThrows("status")
           THEN /\ pipes' = [pipes EXCEPT ![r] =
                                Finalizing(NewPipe, "FAILED", SubscriberError, <<>>)]
                /\ UNCHANGED trace
           ELSE /\ pipes' = [pipes EXCEPT ![r].pc = "scrape"]
                /\ trace' = [trace EXCEPT ![r].spawned = Append(@, "scrape")]
    /\ calls' = [calls EXCEPT ![c].pc = "returned"]
    /\ UNCHANGED <<listeners, scheduledTask, runs,
                   aux, stopLog>>

\* the 'data' events handled so far, all runs together
RECURSIVE TotalChunks(_, _)
TotalChunks(t, n) == IF n = 0 THEN 0 ELSE t[n].chunks + TotalChunks(t, n - 1)

\* a 'data' event of the in-flight child process's stdout or stderr: the chunk
\* is logged, then broadcast (a subscriber that throws there throws into the
\* stream's event handler, after the chunk was logged)
data(r, stream, text) ==
    /\ InFlight(r)
    /\ TotalChunks(trace, Len(trace)) < MaxChunks
    /\ LET logged == IF stream = "stderr" THEN <<ErrorPrefix>> \o text ELSE text IN
        /\ pipes' = [pipes EXCEPT ![r].commandOutput = Append(@, logged)]
        /\ outputBuffer' = Append(outputBuffer, logged)
    /\ trace' = [trace EXCEPT ![r].chunks = @ + 1]
    /\ UNCHANGED <<pipelineStep, currentRunId, abortRequested, listeners, scheduledTask,
                   runs, calls,
                   schedulerConfig, updates, published, timers, initCall, gets, zombies,
                   observed, stopLog>>

StageOutcome(cmd, result, abort) ==
    CASE cmd = "scrape" -> ScrapeOutcome(result, abort)
      [] cmd = "enrich" -> EnrichOutcome(result, abort)
      [] cmd = "process" -> ProcessOutcome(result, abort)

NextStep(cmd) == IF cmd = "scrape" THEN "ENRICHING" ELSE "PROCESSING"
NextUpdate(cmd) == IF cmd = "scrape" THEN "updEnrich" ELSE "updProcess"

\* the 'close' event of the in-flight child process, and the pipeline from the
\* resolved runCommand up to its next await
close(r, code) ==
    /\ InFlight(r)
    /\ LET p == pipes[r]
           result == [code |-> CodeOrOne(code), output |-> Join(p.commandOutput)]
           o == StageOutcome(p.pc, result, abortRequested)
       IN
        /\ trace' = [trace EXCEPT ![r].codes = Append(@, result.code),
                                  ![r].stopped = FALSE,
                                  ![r].marker = @ \/ (p.pc = "scrape" /\
                                        Includes(result.output, <<"QR", "code">>))]
        /\ IF p.pc = "process" \/ ~o.proceed
           THEN /\ pipes' = [pipes EXCEPT ![r] =
                        Finalizing(p, o.finalStatus, o.errorMessage, outputBuffer)]
                /\ UNCHANGED pipelineStep
           ELSE /\ pipelineStep' = NextStep(p.pc)
                /\ pipes' = [pipes EXCEPT ![r] =
                        IF broadcastThrows("status")
                        THEN Finalizing(p, "FAILED", SubscriberError, outputBuffer)
                        ELSE [p EXCEPT !.pc = NextUpdate(p.pc), !.commandOutput = <<>>]]
    /\ UNCHANGED <<currentRunId, abortRequested, outputBuffer, listeners, scheduledTask,
                   runs, calls,
                   aux, stopLog>>

updateStatusOfCurrentRun(r) ==
    /\ pipes[r].pc \in {"updEnrich", "updProcess"}
    /\ runs' = [q \in RunIds |->
                    IF q = currentRunId
                    THEN [runs[q] EXCEPT !.status =
                            IF pipes[r].pc = "updEnrich" THEN "ENRICHING" ELSE "PROCESSING"]
                    ELSE runs[q]]
    /\ pipes' = [pipes EXCEPT ![r].pc =
                    IF pipes[r].pc = "updEnrich" THEN "updEnrichOk" ELSE "updProcessOk"]
    /\ UNCHANGED <<pipelineStep, currentRunId, abortRequested, outputBuffer, listeners,
                   scheduledTask, calls, trace,
                   aux, stopLog>>
\* the store applies the status update issued before stage 2 or stage 3
updateStatus(r) ==
    /\ pipes[r].pc \in {"updEnrich", "updProcess"}
    /\ runs' = [runs EXCEPT ![r].status =
                    IF pipes[r].pc = "updEnrich" THEN "ENRICHING" ELSE "PROCESSING"]
    /\ pipes' = [pipes EXCEPT ![r].pc =
                    IF pipes[r].pc = "updEnrich" THEN "updEnrichOk" ELSE "updProcessOk"]
    /\ UNCHANGED <<pipelineStep, currentRunId, abortRequested, outputBuffer, listeners,
                   scheduledTask, calls, trace,
                   aux, stopLog>>

\* the status update rejects: the catch clause, then the finally block
updateFails(r) ==
    /\ pipes[r].pc \in {"updEnrich", "updProcess"}
    /\ pipes' = [pipes EXCEPT ![r] = Finalizing(@, "FAILED", StoreError, outputBuffer)]
    /\ UNCHANGED <<pipelineStep, currentRunId, abortRequested, outputBuffer, listeners,
                   scheduledTask, runs, calls, trace,
                   aux, stopLog>>

\* the status update has resolved: the stage's command is spawned
spawnStage(r) ==
    /\ pipes[r].pc \in {"updEnrichOk", "updProcessOk"}
    /\ LET cmd == IF pipes[r].pc = "updEnrichOk" THEN "enrich" ELSE "process" IN
        /\ pipes' = [pipes EXCEPT ![r].pc = cmd]
        /\ trace' = [trace EXCEPT ![r].spawned = Append(@, cmd)]
    /\ UNCHANGED <<pipelineStep, currentRunId, abortRequested, outputBuffer, listeners,
                   scheduledTask, runs, calls,
                   aux, stopLog>>

\* the store applies the final update of the finally block
finalUpdate(r) ==
    /\ pipes[r].pc = "final"
    /\ runs' = [runs EXCEPT ![r].status = pipes[r].finalStatus,
                            ![r].completedAt = TRUE,
                            ![r].output = pipes[r].fullOutput,
                            ![r].errorMessage = pipes[r].errorMessage,
                            ![r].sellersProcessed = <<sellersProcessed(pipes[r].fullOutput)>>,
                            ![r].productsScraped = <<productsScraped(pipes[r].fullOutput)>>]
    /\ pipes' = [pipes EXCEPT ![r].pc = "finalOk"]
    /\ UNCHANGED <<pipelineStep, currentRunId, abortRequested, outputBuffer, listeners,
                   scheduledTask, calls, trace,
                   aux, stopLog>>

\* the final update rejects: the exception leaves the finally block and
\* runFullPipeline's promise rejects
finalUpdateFails(r) ==
    /\ pipes[r].pc = "final"
    /\ pipes' = [pipes EXCEPT ![r].pc = "rejected"]
    /\ UNCHANGED <<pipelineStep, currentRunId, abortRequested, outputBuffer, listeners,
                   scheduledTask, runs, calls, trace,
                   aux, stopLog>>

\* the rest of the finally block: the summary, the 'complete' event, the reset
finish(r) ==
    /\ pipes[r].pc = "finalOk"
    /\ IF broadcastThrows("status")
       THEN /\ pipes' = [pipes EXCEPT ![r].pc = "rejected"]
            /\ UNCHANGED <<pipelineStep, currentRunId, abortRequested, trace>>
       ELSE /\ trace' = [trace EXCEPT ![r].complete = Append(@, pipes[r].finalStatus)]
            /\ IF broadcastThrows("complete")
               THEN /\ pipes' = [pipes EXCEPT ![r].pc = "rejected"]
                    /\ UNCHANGED <<pipelineStep, currentRunId, abortRequested>>
               ELSE /\ pipes' = [pipes EXCEPT ![r].pc = "done"]
                    /\ pipelineStep' = "IDLE"
                    /\ currentRunId' = NoRun
                    /\ abortRequested' = FALSE
    /\ UNCHANGED <<outputBuffer, listeners, scheduledTask, runs, calls,
                   aux, stopLog>>

StepOf(cmd) ==
    CASE cmd = "scrape" -> "SCRAPING"
      [] cmd = "enrich" -> "ENRICHING"
      [] cmd = "process" -> "PROCESSING"

stopScraperPreemptive ==
    /\ IF isRunning
       THEN /\ abortRequested' = TRUE
            /\ pipes' = [r \in RunIds |->
                  IF InFlight(r)
                  THEN Finalizing(pipes[r], "FAILED", AbortMessage, outputBuffer)
                  ELSE pipes[r]]
       ELSE UNCHANGED <<abortRequested, pipes>>
    /\ UNCHANGED <<pipelineStep, currentRunId, outputBuffer, listeners, scheduledTask,
                   runs, calls, trace, aux>>
stopScraperUnguarded ==
    /\ abortRequested' = TRUE
    /\ UNCHANGED <<pipelineStep, currentRunId, outputBuffer, listeners, scheduledTask,
                   runs, calls, pipes, trace, aux>>
\* stopScraper(): it throws, with the flag set, when a subscriber throws on the
\* warning.  trace[r].stopped records that a call returned true while the command
\* of run r now in flight was running and pipelineStep showed that command's step
stopScraper ==
    /\ IF isRunning
       THEN /\ abortRequested' = TRUE
            /\ trace' = [r \in RunIds |->
                  IF InFlight(r)
                  /\ StepOf(pipes[r].pc) = pipelineStep
                     /\ ~broadcastThrows("status")
                  THEN [trace[r] EXCEPT !.stopped = TRUE]
                  ELSE trace[r]]
       ELSE UNCHANGED <<abortRequested, trace>>
    /\ UNCHANGED <<pipelineStep, currentRunId, outputBuffer, listeners, scheduledTask,
                   runs, calls, pipes,
                   aux>>

\* what a stopScraper() call gives its caller: the boolean it returns, or the
\* exception of the subscriber that threw on the warning
StopResult ==
    IF ~isRunning THEN "false"
    ELSE IF broadcastThrows("status") THEN "threw"
    ELSE "true"

\* a stopScraper() call whose result the caller keeps
stopCall ==
    /\ Len(stopLog) < MaxStops
    /\ stopLog' = Append(stopLog, StopResult)
    /\ stopScraper

InListeners(cb) == \E i \in 1..Len(listeners) : listeners[i] = cb

subscribe(cb) ==
    /\ ~InListeners(cb)
    /\ listeners' = Append(listeners, cb)
    /\ UNCHANGED <<pipelineStep, currentRunId, abortRequested, outputBuffer,
                   scheduledTask, runs, calls, pipes, trace,
                   aux, stopLog>>

\* the function subscribe returned
unsubscribe(cb) ==
    /\ InListeners(cb)
    /\ listeners' = SelectSeq(listeners, LAMBDA x : x # cb)
    /\ UNCHANGED <<pipelineStep, currentRunId, abortRequested, outputBuffer,
                   scheduledTask, runs, calls, pipes, trace,
                   aux, stopLog>>

\* 1 for a task that is running
Running(task) == IF task.running THEN 1 ELSE 0

startSchedulerUnvalidated(cronExpr) ==
    /\ scheduledTask' = [cronExpr |-> cronExpr, running |-> TRUE]
    /\ timers' = timers - Running(scheduledTask) + 1
    /\ UNCHANGED <<pipelineStep, currentRunId, abortRequested, outputBuffer, listeners,
                   runs, calls, pipes, trace,
                   schedulerConfig, updates, published, side, stopLog>>
startSchedulerKeepsOld(cronExpr) ==
    /\ scheduledTask' =
          IF cronExpr \in ValidCronExprs
          THEN [cronExpr |-> cronExpr, running |-> TRUE]
          ELSE scheduledTask
    /\ timers' = timers + (IF cronExpr \in ValidCronExprs THEN 1 ELSE 0)
    /\ UNCHANGED <<pipelineStep, currentRunId, abortRequested, outputBuffer, listeners,
                   runs, calls, pipes, trace,
                   schedulerConfig, updates, published, side, stopLog>>
\* the installed task is stopped first; an expression cron.validate refuses
\* installs nothing and leaves the stopped task referenced
startScheduler(cronExpr) ==
    /\ scheduledTask' =
          IF cronExpr \in ValidCronExprs
          THEN [cronExpr |-> cronExpr, running |-> TRUE]
          ELSE [scheduledTask EXCEPT !.running = FALSE]
    /\ timers' = timers - Running(scheduledTask)
                    + (IF cronExpr \in ValidCronExprs THEN 1 ELSE 0)
    /\ UNCHANGED <<pipelineStep, currentRunId, abortRequested, outputBuffer, listeners,
                   runs, calls, pipes, trace,
                   schedulerConfig, updates, published, side, stopLog>>

stopScheduler ==
    /\ scheduledTask' = NoTask
    /\ timers' = timers - Running(scheduledTask)
    /\ UNCHANGED <<pipelineStep, currentRunId, abortRequested, outputBuffer, listeners,
                   runs, calls, pipes, trace,
                   schedulerConfig, updates, published, side, stopLog>>

\* the cron callback of the installed task
tick ==
    /\ scheduledTask.running
    /\ startScraper("SCHEDULED")

UpdateIds == 1..Len(updates)

\* updateSchedulerConfig up to `await prisma.schedulerConfig.upsert`
updateSchedulerConfig(enabled, cronExpr) ==
    /\ Len(updates) < MaxUpdates
    /\ updates' = Append(updates,
          [enabled |-> enabled, cronExpr |-> cronExpr, pc |-> "upsert"])
    /\ UNCHANGED <<pipelineStep, currentRunId, abortRequested, outputBuffer, listeners,
                   scheduledTask, runs, calls, pipes, trace, schedulerConfig,
                   published, timers, side, stopLog>>

\* the store applies the upsert: the record with id 1 is created or updated
upsert(u) ==
    /\ updates[u].pc = "upsert"
    /\ schedulerConfig' =
          <<[enabled |-> updates[u].enabled, cronExpr |-> updates[u].cronExpr]>>
    /\ updates' = [updates EXCEPT ![u].pc = "upserted"]
    /\ UNCHANGED <<pipelineStep, currentRunId, abortRequested, outputBuffer, listeners,
                   scheduledTask, runs, calls, pipes, trace, published, timers, side,
                   stopLog>>

\* the upsert rejects: updateSchedulerConfig throws, the scheduler is not touched
upsertFails(u) ==
    /\ updates[u].pc = "upsert"
    /\ updates' = [updates EXCEPT ![u].pc = "threw"]
    /\ UNCHANGED <<pipelineStep, currentRunId, abortRequested, outputBuffer, listeners,
                   scheduledTask, runs, calls, pipes, trace, schedulerConfig,
                   published, timers, side, stopLog>>

\* updateSchedulerConfig after the upsert: startScheduler(cronExpr) with an
\* enabled, valid expression, stopScheduler() otherwise
applyConfig(u) ==
    /\ updates[u].pc = "upserted"
    /\ scheduledTask' =
          IF updates[u].enabled /\ updates[u].cronExpr \in ValidCronExprs
          THEN [cronExpr |-> updates[u].cronExpr, running |-> TRUE]
          ELSE NoTask
    /\ timers' = timers - Running(scheduledTask)
                    + (IF updates[u].enabled /\ updates[u].cronExpr \in ValidCronExprs
                       THEN 1 ELSE 0)
    /\ updates' = [updates EXCEPT ![u].pc = "returned"]
    /\ UNCHANGED <<pipelineStep, currentRunId, abortRequested, outputBuffer, listeners,
                   runs, calls, pipes, trace, schedulerConfig, published, side,
                   stopLog>>

ConfigNext ==
    \/ \E enabled \in BOOLEAN, cronExpr \in CronExprs :
          updateSchedulerConfig(enabled, cronExpr)
    \/ \E u \in UpdateIds : upsert(u)
    \/ \E u \in UpdateIds : upsertFails(u)
    \/ \E u \in UpdateIds : applyConfig(u)

\* the runs whose child process has emitted 'error', each with whether the
\* handler got as far as its resolve
Errored(r) == \E resolved \in BOOLEAN : <<r, resolved>> \in zombies

\* the 'error' event of the in-flight child process: the message is broadcast
\* as stderr (it is not logged), then runCommand resolves with code 1 and the
\* pipeline runs up to its next await.  A subscriber that throws on the message
\* throws into the event handler before the resolve: the command stays
\* pending, and only a later 'close' event can resolve it
error(r) ==
    /\ InFlight(r)
    /\ ~Errored(r)
    /\ zombies' = zombies \cup {<<r, ~broadcastThrows("stderr")>>}
    /\ IF broadcastThrows("stderr")
       THEN UNCHANGED <<pipelineStep, pipes, trace>>
       ELSE LET p == pipes[r]
                result == [code |-> 1, output |-> Join(p.commandOutput)]
                o == StageOutcome(p.pc, result, abortRequested)
            IN
             /\ trace' = [trace EXCEPT ![r].codes = Append(@, result.code),
                                       ![r].stopped = FALSE,
                                       ![r].marker = @ \/ (p.pc = "scrape" /\
                                             Includes(result.output, <<"QR", "code">>))]
             /\ IF p.pc = "process" \/ ~o.proceed
                THEN /\ pipes' = [pipes EXCEPT ![r] =
                             Finalizing(p, o.finalStatus, o.errorMessage, outputBuffer)]
                     /\ UNCHANGED pipelineStep
                ELSE /\ pipelineStep' = NextStep(p.pc)
                     /\ pipes' = [pipes EXCEPT ![r] =
                             IF broadcastThrows("status")
                             THEN Finalizing(p, "FAILED", SubscriberError, outputBuffer)
                             ELSE [p EXCEPT !.pc = NextUpdate(p.pc), !.commandOutput = <<>>]]
    /\ UNCHANGED <<currentRunId, abortRequested, outputBuffer, listeners, scheduledTask,
                   runs, calls, schedulerConfig, updates, published, timers,
                   initCall, gets, probe, stopLog>>

\* the 'close' event of a child process whose 'error' handler has resolved
\* runCommand already: the second resolve has no effect
closeAfterError(r) ==
    /\ <<r, TRUE>> \in zombies
    /\ zombies' = zombies \ {<<r, TRUE>>}
    /\ UNCHANGED <<pipelineStep, currentRunId, abortRequested, outputBuffer, listeners,
                   scheduledTask, runs, calls, pipes, trace, schedulerConfig, updates,
                   published, timers, initCall, gets, probe, stopLog>>

ErrorNext ==
    \/ \E r \in RunIds : error(r)
    \/ \E r \in RunIds : closeAfterError(r)

\* the record initScheduler creates and getSchedulerConfig falls back to
DefaultConfig == [enabled |-> FALSE, cronExpr |-> "0 9,21 * * *"]

\* initScheduler up to `await prisma.schedulerConfig.findUnique`
initScheduler ==
    /\ initCall.pc = "notCalled"
    /\ initCall' = [initCall EXCEPT !.pc = "find"]
    /\ UNCHANGED <<pipelineStep, currentRunId, abortRequested, outputBuffer, listeners,
                   scheduledTask, runs, calls, pipes, trace, schedulerConfig, updates,
                   published, timers, gets, zombies, probe, stopLog>>

\* findUnique resolves with the record with id 1, or with null
initFind ==
    /\ initCall.pc = "find"
    /\ initCall' = [pc |-> "found", config |-> schedulerConfig]
    /\ UNCHANGED <<pipelineStep, currentRunId, abortRequested, outputBuffer, listeners,
                   scheduledTask, runs, calls, pipes, trace, schedulerConfig, updates,
                   published, timers, gets, zombies, probe, stopLog>>

\* findUnique or create rejects: the catch clause logs and initScheduler returns
initStoreFails ==
    /\ initCall.pc \in {"find", "create"}
    /\ initCall' = [initCall EXCEPT !.pc = "skipped"]
    /\ UNCHANGED <<pipelineStep, currentRunId, abortRequested, outputBuffer, listeners,
                   scheduledTask, runs, calls, pipes, trace, schedulerConfig, updates,
                   published, timers, gets, zombies, probe, stopLog>>

\* no record was found: the create of the default record is issued
initIssueCreate ==
    /\ initCall.pc = "found"
    /\ initCall.config = <<>>
    /\ initCall' = [initCall EXCEPT !.pc = "create"]
    /\ UNCHANGED <<pipelineStep, currentRunId, abortRequested, outputBuffer, listeners,
                   scheduledTask, runs, calls, pipes, trace, schedulerConfig, updates,
                   published, timers, gets, zombies, probe, stopLog>>

\* the store applies the create; with a record of id 1 present by now it
\* refuses it (findUnique's key), which the catch clause logs
initCreate ==
    /\ initCall.pc = "create"
    /\ IF schedulerConfig = <<>>
       THEN /\ schedulerConfig' = <<DefaultConfig>>
            /\ initCall' = [pc |-> "created", config |-> <<DefaultConfig>>]
       ELSE /\ initCall' = [initCall EXCEPT !.pc = "skipped"]
            /\ UNCHANGED schedulerConfig
    /\ UNCHANGED <<pipelineStep, currentRunId, abortRequested, outputBuffer, listeners,
                   scheduledTask, runs, calls, pipes, trace, updates,
                   published, timers, gets, zombies, probe, stopLog>>

initInstallAlways ==
    /\ \/ initCall.pc = "found" /\ initCall.config # <<>>
       \/ initCall.pc = "created"
    /\ scheduledTask' = [cronExpr |-> initCall.config[1].cronExpr, running |-> TRUE]
    /\ timers' = timers - Running(scheduledTask) + 1
    /\ initCall' = [initCall EXCEPT !.pc = "done"]
    /\ UNCHANGED <<pipelineStep, currentRunId, abortRequested, outputBuffer, listeners,
                   runs, calls, pipes, trace, schedulerConfig, updates,
                   published, gets, zombies, probe, stopLog>>
\* initScheduler with the record in hand: startScheduler(config.cronExpr) when
\* it is enabled and its expression is valid
initInstall ==
    /\ \/ initCall.pc = "found" /\ initCall.config # <<>>
       \/ initCall.pc = "created"
    /\ LET config == initCall.config[1] IN
          IF config.enabled /\ config.cronExpr \in ValidCronExprs
          THEN /\ scheduledTask' = [cronExpr |-> config.cronExpr, running |-> TRUE]
               /\ timers' = timers - Running(scheduledTask) + 1
          ELSE UNCHANGED <<scheduledTask, timers>>
    /\ initCall' = [initCall EXCEPT !.pc = "done"]
    /\ UNCHANGED <<pipelineStep, currentRunId, abortRequested, outputBuffer, listeners,
                   runs, calls, pipes, trace, schedulerConfig, updates,
                   published, gets, zombies, probe, stopLog>>

InitNext ==
    \/ initScheduler
    \/ initFind
    \/ initStoreFails
    \/ initIssueCreate
    \/ initCreate
    \/ initInstall

GetIds == 1..Len(gets)

\* getSchedulerConfig up to `await prisma.schedulerConfig.findUnique`
getSchedulerConfig ==
    /\ Len(gets) < MaxGets
    /\ gets' = Append(gets, [pc |-> "find", result |-> <<>>, storeOk |-> FALSE])
    /\ UNCHANGED <<pipelineStep, currentRunId, abortRequested, outputBuffer, listeners,
                   scheduledTask, runs, calls, pipes, trace, schedulerConfig, updates,
                   published, timers, initCall, zombies, probe, stopLog>>

\* findUnique resolves: the record is returned, or the default when there is none
getFind(g) ==
    /\ gets[g].pc = "find"
    /\ gets' = [gets EXCEPT ![g] =
          [pc |-> "returned",
           result |-> IF schedulerConfig = <<>> THEN <<DefaultConfig>> ELSE schedulerConfig,
           storeOk |-> TRUE]]
    /\ UNCHANGED <<pipelineStep, currentRunId, abortRequested, outputBuffer, listeners,
                   scheduledTask, runs, calls, pipes, trace, schedulerConfig, updates,
                   published, timers, initCall, zombies, probe, stopLog>>

\* findUnique rejects: the catch clause returns the default
getFails(g) ==
    /\ gets[g].pc = "find"
    /\ gets' = [gets EXCEPT ![g] =
          [pc |-> "returned", result |-> <<DefaultConfig>>, storeOk |-> FALSE]]
    /\ UNCHANGED <<pipelineStep, currentRunId, abortRequested, outputBuffer, listeners,
                   scheduledTask, runs, calls, pipes, trace, schedulerConfig, updates,
                   published, timers, initCall, zombies, probe, stopLog>>

GetNext ==
    \/ getSchedulerConfig
    \/ \E g \in GetIds : getFind(g)
    \/ \E g \in GetIds : getFails(g)

\* chunks of output that carry, or nearly carry, the counters
CounterTexts ==
    {<<"7", "seller(s)">>, <<"3", "seller(s)">>, <<"Saved", "4", "2", "products">>,
     <<"1">>}

CounterNext ==
    \E r \in RunIds, stream \in Streams, text \in CounterTexts :
        data(r, stream, text) /\ UNCHANGED emitted

isRunningByRunId ==
    /\ observed' = [NoObservation EXCEPT !.call = "isRunning",
                                         !.running = currentRunId # NoRun]
    /\ UNCHANGED <<pipelineStep, currentRunId, abortRequested, outputBuffer, listeners,
                   scheduledTask, runs, calls, pipes, trace, schedulerConfig, updates,
                   published, timers, initCall, gets, zombies, emitted, stopLog>>
\* an isRunning() call, with what it returned
isRunningCall ==
    /\ observed' = [NoObservation EXCEPT !.call = "isRunning",
                                         !.running = pipelineStep # "IDLE"]
    /\ UNCHANGED <<pipelineStep, currentRunId, abortRequested, outputBuffer, listeners,
                   scheduledTask, runs, calls, pipes, trace, schedulerConfig, updates,
                   published, timers, initCall, gets, zombies, emitted, stopLog>>

\* a getCurrentStep() call, with what it returned
getCurrentStep ==
    /\ observed' = [NoObservation EXCEPT !.call = "getCurrentStep",
                                         !.step = pipelineStep]
    /\ UNCHANGED <<pipelineStep, currentRunId, abortRequested, outputBuffer, listeners,
                   scheduledTask, runs, calls, pipes, trace, schedulerConfig, updates,
                   published, timers, initCall, gets, zombies, emitted, stopLog>>

\* a getCurrentRunId() call, with what it returned (NoRun for null)
getCurrentRunId ==
    /\ observed' = [NoObservation EXCEPT !.call = "getCurrentRunId",
                                         !.runId = currentRunId]
    /\ UNCHANGED <<pipelineStep, currentRunId, abortRequested, outputBuffer, listeners,
                   scheduledTask, runs, calls, pipes, trace, schedulerConfig, updates,
                   published, timers, initCall, gets, zombies, emitted, stopLog>>

ObserverNext ==
    \/ isRunningCall
    \/ getCurrentStep
    \/ getCurrentRunId

\* the orchestrator without stop calls: manual starts, the store, the child
\* processes' exits
PipelineNext ==
    \/ startScraper("MANUAL")
    \/ \E c \in CallIds : createRun(c)
    \/ \E c \in CallIds : createFails(c)
    \/ \E c \in CallIds : launchPipeline(c)
    \/ \E r \in RunIds, code \in ExitCodes : close(r, code)
    \/ \E r \in RunIds : updateStatus(r)
    \/ \E r \in RunIds : updateFails(r)
    \/ \E r \in RunIds : spawnStage(r)
    \/ \E r \in RunIds : finalUpdate(r)
    \/ \E r \in RunIds : finalUpdateFails(r)
    \/ \E r \in RunIds : finish(r)

\* the orchestrator with stop calls whose return value is dropped
OrchNext ==
    \/ PipelineNext
    \/ stopScraper /\ UNCHANGED stopLog

OutputNext ==
    \E r \in RunIds, stream \in Streams, text \in Texts :
        data(r, stream, text) /\ UNCHANGED emitted

\* a 'data' event, with the chunk as logged kept under the run whose command
\* printed it
emit(r, stream, text) ==
    /\ data(r, stream, text)
    /\ emitted' = [emitted EXCEPT ![r] =
          Append(@, IF stream = "stderr" THEN <<ErrorPrefix>> \o text ELSE text)]

EmitNext ==
    \E r \in RunIds, stream \in Streams, text \in Texts : emit(r, stream, text)

SubscriberNext ==
    \/ \E cb \in Callbacks : subscribe(cb)
    \/ \E cb \in Callbacks : unsubscribe(cb)

SchedulerNext ==
    \/ \E cronExpr \in CronExprs : startScheduler(cronExpr)
    \/ stopScheduler
    \/ tick

\* the service with its subscribers
Next == OrchNext \/ SubscriberNext

Spec == Init /\ [][Next]_vars

\* the service with the output of its child processes
OutputSpecNext == OrchNext \/ OutputNext

OutputSpec == Init /\ [][OutputSpecNext]_vars

\* the service with its scheduler
SchedNext == OrchNext \/ SchedulerNext

SchedSpec == Init /\ [][SchedNext]_vars

\* the service with its subscribers and the callers of stopScraper
StopNext == PipelineNext \/ stopCall \/ SubscriberNext

StopSpec == Init /\ [][StopNext]_vars

\* the scheduler with its configuration calls and its ticks
ConfigSpecNext == ConfigNext \/ SchedulerNext

ConfigSpec == Init /\ [][ConfigSpecNext]_vars

\* the orchestrator with commands that fail to spawn, and subscribers
SpawnNext == OrchNext \/ ErrorNext \/ SubscriberNext

SpawnSpec == Init /\ [][SpawnNext]_vars

\* the orchestrator, started once, with commands that print counters
ParseNext == (OrchNext \/ CounterNext) /\ (calls # <<>> => Len(calls') = Len(calls))

ParseSpec == Init /\ [][ParseNext]_vars

\* the orchestrator, started once, with commands that print text
SingleRunNext == (OrchNext \/ OutputNext) /\ (calls # <<>> => Len(calls') = Len(calls))

SingleRunSpec == Init /\ [][SingleRunNext]_vars

\* the pipelines with the chunks of each run kept apart
ChunkNext == PipelineNext \/ EmitNext

ChunkSpec == Init /\ [][ChunkNext]_vars

\* the orchestrator and the scheduler's timer, with observer calls
ObserveNext ==
    \/ OrchNext
    \/ \E cronExpr \in CronExprs : startScheduler(cronExpr)
    \/ stopScheduler
    \/ ObserverNext

ObserveSpec == Init /\ [][ObserveNext]_vars

\* the scheduler from the module load on: initScheduler, configuration calls
\* and reads of the configuration
InitSpecNext == InitNext \/ ConfigNext \/ GetNext

InitSpec == Init /\ [][InitSpecNext]_vars

\* --------------------------------------------- the broadcaster on its own
\* callbacks that use the service from inside a broadcast: cbAdd subscribes
\* cbLate when it is invoked, cbRemove calls the function its subscribe returned
AllCallbacks == Callbacks \cup {"cbAdd", "cbRemove", "cbLate"}

Throws(cb, type) == cb \in Callbacks /\ type \in ThrowsOn[cb]

Member(s, x) == \E i \in 1..Len(s) : s[i] = x

\* Set.prototype.add and Set.prototype.delete on the insertion-ordered Set
SetAdd(ls, cb) == IF Member(ls, cb) THEN ls ELSE Append(ls, cb)
SetDelete(ls, cb) == SelectSeq(ls, LAMBDA x : x # cb)

\* the Set after callback cb has run
Invoke(cb, ls) ==
    CASE cb = "cbAdd" -> SetAdd(ls, "cbLate")
      [] cb = "cbRemove" -> SetDelete(ls, "cbRemove")
      [] OTHER -> ls

\* Set.prototype.forEach: the position of the entry visited after the one at
\* position i, whose callback cb has run and left the Set as ls (a deleted
\* entry is passed over, the entries behind it are still visited)
NextEntrySkipping(ls, cb, i) == i + 1
NextEntry(ls, cb, i) == IF Member(ls, cb) THEN i + 1 ELSE i

\* listeners.forEach((cb) => cb(output)) from position i on: the Set it leaves,
\* the callbacks invoked in order, and whether one threw
RECURSIVE forEach(_, _, _, _)
forEach(ls, i, type, to) ==
    IF i > Len(ls) THEN [listeners |-> ls, to |-> to, threw |-> FALSE]
    ELSE LET cb == ls[i]
             after == Invoke(cb, ls)
         IN  IF Throws(cb, type)
             THEN [listeners |-> after, to |-> Append(to, cb), threw |-> TRUE]
             ELSE forEach(after, NextEntry(after, cb, i), type, Append(to, cb))

\* broadcast(output), with what it did kept in `published`
broadcast(type) ==
    LET done == forEach(listeners, 1, type, <<>>) IN
        /\ published' = [type |-> type, before |-> listeners, to |-> done.to,
                         after |-> done.listeners, threw |-> done.threw]
        /\ listeners' = done.listeners
        /\ UNCHANGED <<pipelineStep, currentRunId, abortRequested, outputBuffer,
                       scheduledTask, runs, calls, pipes, trace, schedulerConfig,
                       updates, timers, side, stopLog>>

BroadcastNext ==
    \/ \E cb \in AllCallbacks : subscribe(cb)
    \/ \E cb \in AllCallbacks : unsubscribe(cb)
    \/ \E type \in EventTypes : broadcast(type)

BroadcastSpec == Init /\ [][BroadcastNext]_vars

\* ----------------------------------------------------------------- claims
Settled(r) == pipes[r].pc \in {"done", "rejected"}
InFinally(r) == pipes[r].pc \in {"final", "finalOk", "done", "rejected"}
Persisted(r) == pipes[r].pc \in {"finalOk", "done"} \/ runs[r].status \in Terminal
Accepted(c) == calls[c].runId \notin {NoRun, RejectedRunId}
Stages == <<"scrape", "enrich", "process">>
FailStatus(k) ==
    CASE k = 1 -> "FAILED" [] k = 2 -> "ENRICHMENT_FAILED" [] k = 3 -> "PROCESSING_FAILED"
\* the in-flight command of run r exits in this step, with the resolved code
Exits(r, code) ==
    /\ InFlight(r)
    /\ trace'[r].codes = Append(trace[r].codes, code)

\* C1: at most one Run record has a non-terminal status (RUNNING, ENRICHING,
\* PROCESSING) in every reachable state, whatever the interleaving of start calls.
C1_AtMostOneActiveRun ==
    Cardinality({r \in RunIds : runs[r].status \in NonTerminal}) <= 1

\* C2: of a manual start call and a scheduler tick that were in flight together
\* from IDLE, at most one is accepted: the other gets runId -1 and no Run record
\* is created for it.
C2_RacingStartsOneAccepted ==
    \A d \in CallIds : \A c \in calls[d].overlap :
        calls[c].triggerType # calls[d].triggerType =>
            ~(Accepted(c) /\ Accepted(d))

\* C3: a startScraper call made while pipelineStep is not IDLE returns runId -1
\* with an error and changes nothing: no Run record, and pipelineStep,
\* currentRunId, the abort flag, the output buffer and the pipelines are as before.
C3_RejectedStartChangesNothing ==
    [][(Len(calls') = Len(calls) + 1 /\ pipelineStep # "IDLE") =>
          /\ calls'[Len(calls')].pc = "returned"
          /\ calls'[Len(calls')].runId = RejectedRunId
          /\ calls'[Len(calls')].error # NoError
          /\ UNCHANGED <<runs, pipelineStep, currentRunId, abortRequested,
                         outputBuffer, pipes>>]_vars

C3_Witness ==
    \E c \in CallIds :
        /\ calls[c].runId = RejectedRunId
        /\ currentRunId # NoRun
        /\ abortRequested
        /\ outputBuffer # <<>>
        /\ Len(runs) = 1

\* C4: once the pipeline of an accepted run has ended, on whatever branch, its
\* finalization was executed: the Run record is terminal with completedAt set
\* and the reset to IDLE was reached.
C4_EndedRunIsFinalized ==
    \A r \in RunIds : Settled(r) =>
        /\ runs[r].status \in Terminal
        /\ runs[r].completedAt
        /\ pipes[r].pc = "done"

\* C5: when a run whose record is terminal ends, isRunning() is false,
\* getCurrentRunId() is null and exactly one 'complete' event was broadcast for
\* it, carrying the status persisted in its record.
C5_TerminalOutcomeResets ==
    [][\A r \in RunIds :
          (r \in DOMAIN pipes' /\ ~Settled(r) /\ pipes'[r].pc \in {"done", "rejected"}
              /\ runs'[r].status \in Terminal) =>
              /\ pipelineStep' = "IDLE"
              /\ currentRunId' = NoRun
              /\ trace'[r].complete = <<runs'[r].status>>]_vars

\* C6: whenever the scrape output contained the authentication marker, whatever
\* the exit code, the run's final status is AUTH_REQUIRED and neither the
\* enrichment nor the processing command is spawned.
C6_AuthMarkerStopsPipeline ==
    \A r \in RunIds : trace[r].marker =>
        /\ InFinally(r)
        /\ pipes[r].finalStatus = "AUTH_REQUIRED"
        /\ trace[r].spawned = <<"scrape">>
        /\ Persisted(r) => runs[r].status = "AUTH_REQUIRED"

C6_Witness ==
    \E r \in RunIds :
        /\ trace[r].marker
        /\ trace[r].codes = <<0>>
        /\ runs[r].status = "AUTH_REQUIRED"
        /\ pipes[r].pc = "done"

\* C7: a non-zero exit of stage k (for stage 1: with no marker in the output)
\* ends the run with the status of that stage, citing the exit code, with
\* completedAt set, no later stage spawned and no command spawned twice.
C7_StageFailureStatus ==
    \A r \in RunIds :
        LET k == Len(trace[r].codes) IN
        (k >= 1 /\ trace[r].codes[k] # 0 /\ ~trace[r].marker) =>
            /\ InFinally(r)
            /\ pipes[r].finalStatus = FailStatus(k)
            /\ pipes[r].errorMessage[2] = trace[r].codes[k]
            /\ trace[r].spawned = SubSeq(Stages, 1, k)
            /\ Persisted(r) =>
                  /\ runs[r].status = FailStatus(k)
                  /\ runs[r].completedAt
                  /\ runs[r].errorMessage = pipes[r].errorMessage

C7_Witness ==
    \E r \in RunIds :
        /\ trace[r].codes = <<0, 1>>
        /\ runs[r].status = "ENRICHMENT_FAILED"
        /\ runs[r].completedAt
        /\ pipes[r].pc = "done"

\* C8: a run's final status is COMPLETED if and only if the three commands were
\* spawned in the order scrape, enrich, process, each once, each exited with 0,
\* the scrape output had no marker and no abort stopped it at a boundary.
C8_CompletedIffAllStagesSucceed ==
    \A r \in RunIds :
        LET all == /\ trace[r].spawned = Stages
                   /\ trace[r].codes = <<0, 0, 0>>
                   /\ ~trace[r].marker
        IN  /\ InFinally(r) =>
                /\ (pipes[r].finalStatus = "COMPLETED") <=> all
                /\ pipes[r].finalStatus = "COMPLETED" => pipes[r].errorMessage = NoError
            /\ Persisted(r) => ((runs[r].status = "COMPLETED") <=> all)

C8_Witness ==
    \E r \in RunIds :
        /\ runs[r].status = "COMPLETED"
        /\ trace[r].spawned = Stages
        /\ trace[r].chunks > 0
        /\ pipes[r].pc = "done"

\* C9: if stopScraper() returned true while SCRAPING (or ENRICHING) and the
\* stage in flight exits with code 0 and no marker, the flag is observed before
\* the next stage: nothing more is spawned and the run ends FAILED with the
\* message 'Pipeline aborted by user'.
C9_AbortObservedAtBoundary ==
    [][\A r \in RunIds :
          (/\ pipes[r].pc \in {"scrape", "enrich"}
           /\ trace[r].stopped
           /\ Exits(r, 0)
           /\ ~trace'[r].marker) =>
              /\ pipes'[r].pc = "final"
              /\ pipes'[r].finalStatus = "FAILED"
              /\ pipes'[r].errorMessage = AbortMessage]_vars

\* C10: a run during whose stage (scrape, enrich or process) stopScraper()
\* returned true does not, when that stage exits 0, end as COMPLETED.
C10_RegisteredAbortNeverCompleted ==
    [][\A r \in RunIds :
          (trace[r].stopped /\ Exits(r, 0) /\ ~trace'[r].marker) =>
              ~(pipes'[r].pc = "final" /\ pipes'[r].finalStatus = "COMPLETED")]_vars

\* C11: a stopScraper() call made while pipelineStep is IDLE returns false (with
\* a throwing subscriber registered too: nothing is broadcast) and changes
\* nothing; a run ends with the abort message only if some stopScraper() call
\* found the pipeline running.
C11_IdleStopChangesNothing ==
    [][/\ (Len(stopLog') > Len(stopLog) /\ pipelineStep = "IDLE") =>
              /\ stopLog'[Len(stopLog')] = "false"
              /\ UNCHANGED <<pipelineStep, currentRunId, abortRequested, outputBuffer,
                             listeners, scheduledTask, runs, calls, pipes, trace>>
       /\ \A r \in DOMAIN pipes' :
              pipes'[r].errorMessage = AbortMessage =>
                  \E i \in 1..Len(stopLog') : stopLog'[i] # "false"]_vars

C11_Witness ==
    /\ stopLog = <<"false">>
    /\ InListeners("cbThrow")
    /\ ~abortRequested
    /\ Len(runs) = 1
    /\ pipes[1].pc = "final"
    /\ pipes[1].finalStatus = "COMPLETED"

\* C12: a run whose pipeline caught an exception (a rejected status update, a
\* subscriber's exception) has the final status FAILED with the exception's
\* message, and once its pipeline has ended the finalization was completed: the
\* record is FAILED with that message and completedAt, and the reset was reached.
C12_CaughtExceptionIsFinalized ==
    \A r \in RunIds :
        pipes[r].errorMessage \in {StoreError, SubscriberError} =>
            /\ InFinally(r)
            /\ pipes[r].finalStatus = "FAILED"
            /\ Settled(r) =>
                  /\ pipes[r].pc = "done"
                  /\ runs[r].status = "FAILED"
                  /\ runs[r].errorMessage = pipes[r].errorMessage
                  /\ runs[r].completedAt

\* C13: at most one stage command is in flight at any time, over all runs and
\* all interleavings of start calls, scheduler ticks and stop calls.
C13_OneStageInFlight ==
    Cardinality({r \in RunIds : InFlight(r)}) <= 1

\* C14: a subscriber that throws during a broadcast does not affect the
\* producer: no run's outcome is the subscriber's exception, no finalization is
\* cut short by it (a run whose record is terminal has completed its
\* finalization) and no stopScraper() call throws.
C14_ThrowingSubscriberIsIsolated ==
    /\ \A r \in RunIds :
          /\ pipes[r].errorMessage # SubscriberError
          /\ (pipes[r].pc = "rejected" => runs[r].status \in NonTerminal)
    /\ \A i \in 1..Len(stopLog) : stopLog[i] # "threw"

\* C15: a subscriber added by a callback while a broadcast of an event is in
\* flight does not receive that event: every callback a broadcast invokes was
\* subscribed when the broadcast began.
C15_AddedDuringBroadcastNotDelivered ==
    \A i \in 1..Len(published.to) : Member(published.before, published.to[i])

\* C16: a callback whose unsubscribe function was called receives no later
\* event (a broadcast invokes only callbacks subscribed when it began or added
\* during it, and a callback that unsubscribed inside the broadcast is gone when
\* it returns), and the callbacks that were not removed still get the event:
\* those subscribed at the start are invoked once each, in order, up to the
\* first one that throws.
C16_UnsubscribedGetsNothingMore ==
    LET p == published
        old == SelectSeq(p.to, LAMBDA x : Member(p.before, x))
    IN  /\ \A i \in 1..Len(p.to) :
              \/ Member(p.before, p.to[i])
              \/ p.to[i] = "cbLate" /\ Member(SubSeq(p.to, 1, i - 1), "cbAdd")
        /\ Member(p.to, "cbRemove") /\ ~p.threw => ~Member(p.after, "cbRemove")
        /\ old = SubSeq(p.before, 1, Len(old))
        /\ ~p.threw => old = p.before
        /\ p.threw => Throws(p.to[Len(p.to)], p.type)

C16_Witness ==
    /\ published.to = <<"cbRemove", "cbOk">>
    /\ ~InListeners("cbRemove")
    /\ InListeners("cbOk")

\* C17: a broadcast invokes every currently subscribed callback exactly once,
\* in the order of subscription: no callback twice, every callback subscribed
\* when the broadcast began and still subscribed when it returned, and in the
\* order of the Set.
C17_EachSubscriberOnceInOrder ==
    LET p == published IN
        /\ \A i, j \in 1..Len(p.to) : i # j => p.to[i] # p.to[j]
        /\ \A i \in 1..Len(p.before) :
              Member(p.after, p.before[i]) => Member(p.to, p.before[i])
        /\ SelectSeq(p.to, LAMBDA x : Member(p.before, x))
              = SelectSeq(p.before, LAMBDA x : Member(p.to, x))

\* a run is active: the step is not IDLE or a Run record is not terminal
RunActive ==
    \/ pipelineStep # "IDLE"
    \/ \E r \in RunIds : runs[r].status \in NonTerminal

\* C18: a tick of the scheduler while a run is active is a no-op: the call
\* returns the rejection without throwing, no Run record is created and step,
\* run id, abort flag, output buffer and pipelines are unchanged; a tick while no
\* run is active issues the create, and the record of an accepted call carries
\* the call's trigger type.
C18_TickDuringRunIsNoOp ==
    [][/\ (Len(calls') = Len(calls) + 1
            /\ calls'[Len(calls')].triggerType = "SCHEDULED") =>
              IF RunActive
              THEN /\ calls'[Len(calls')].pc = "returned"
                   /\ calls'[Len(calls')].runId = RejectedRunId
                   /\ UNCHANGED <<runs, pipelineStep, currentRunId, abortRequested,
                                  outputBuffer, pipes>>
              ELSE calls'[Len(calls')].pc = "create"
       /\ \A c \in DOMAIN calls' :
              calls'[c].runId \notin {NoRun, RejectedRunId} =>
                  runs'[calls'[c].runId].triggerType = calls'[c].triggerType]_vars

\* C19: a call with an invalid cron expression installs no timer and fires no
\* scheduled run: an installed, running task always has a valid expression,
\* startScheduler or updateSchedulerConfig with an invalid expression leaves no
\* running task, and a scheduled start is only ever made by a running task.
C19_InvalidCronInstallsNothing ==
    [][/\ scheduledTask'.running => scheduledTask'.cronExpr \in ValidCronExprs
       /\ \A e \in CronExprs \ ValidCronExprs :
              startScheduler(e) => ~scheduledTask'.running
       /\ \A u \in UpdateIds :
              (/\ updates[u].pc = "upserted"
               /\ updates'[u].pc = "returned"
               /\ updates[u].cronExpr \notin ValidCronExprs) => scheduledTask' = NoTask
       /\ (Len(calls') = Len(calls) + 1
            /\ calls'[Len(calls')].triggerType = "SCHEDULED") =>
              /\ scheduledTask.running
              /\ scheduledTask.cronExpr \in ValidCronExprs]_vars

C19_Witness ==
    /\ \E u \in UpdateIds :
          /\ updates[u].pc = "returned"
          /\ updates[u].enabled
          /\ updates[u].cronExpr \notin ValidCronExprs
    /\ \E u \in UpdateIds :
          updates[u].pc = "returned" /\ updates[u].cronExpr \in ValidCronExprs
    /\ scheduledTask = NoTask
    /\ Len(calls) = 1
    /\ calls[1].triggerType = "SCHEDULED"

\* C20: updateSchedulerConfig(true, cronExpr) with an invalid expression does
\* not leave the persisted record enabled: a persisted record that is enabled
\* has a valid expression.
C20_InvalidCronNotPersistedEnabled ==
    \A i \in 1..Len(schedulerConfig) :
        schedulerConfig[i].enabled => schedulerConfig[i].cronExpr \in ValidCronExprs

\* C21: at most one cron task is running at any time, and it is the installed
\* one (a task is stopped before another is installed or the reference is
\* dropped); when updateSchedulerConfig with enabled = false completes, no task
\* is running, whatever the expression.
C21_AtMostOneTimer ==
    [][/\ timers' <= 1
       /\ timers' = Running(scheduledTask')
       /\ \A u \in UpdateIds :
              (/\ updates[u].pc = "upserted"
               /\ updates'[u].pc = "returned"
               /\ ~updates[u].enabled) => timers' = 0 /\ scheduledTask' = NoTask]_vars

C21_Witness ==
    /\ \E u \in UpdateIds :
          /\ updates[u].pc = "returned"
          /\ ~updates[u].enabled
          /\ updates[u].cronExpr \in ValidCronExprs
    /\ \E u \in UpdateIds :
          /\ updates[u].pc = "returned"
          /\ updates[u].enabled
          /\ updates[u].cronExpr \in ValidCronExprs
    /\ timers = 0
    /\ Len(calls) = 2

\* C22: initScheduler that finds no record creates the default record and
\* installs no task; with a record in hand it installs a task exactly when the
\* record is enabled with a valid expression; when the store raises an error it
\* returns (no exception) having touched neither the task nor the record.
C22_InitSchedulerInstalls ==
    [][/\ (initCall.pc = "create" /\ initCall'.pc = "created") =>
              /\ schedulerConfig = <<>>
              /\ schedulerConfig' = <<[enabled |-> FALSE, cronExpr |-> "0 9,21 * * *"]>>
              /\ UNCHANGED <<scheduledTask, timers>>
       /\ (initCall.pc = "created" /\ initCall'.pc = "done") =>
              UNCHANGED <<scheduledTask, timers, schedulerConfig>>
       /\ (initCall.pc = "found" /\ initCall'.pc = "done") =>
              /\ initCall.config # <<>>
              /\ UNCHANGED schedulerConfig
              /\ IF initCall.config[1].enabled
                    /\ initCall.config[1].cronExpr \in ValidCronExprs
                 THEN /\ scheduledTask'.running
                      /\ scheduledTask'.cronExpr = initCall.config[1].cronExpr
                      /\ timers' = 1
                 ELSE UNCHANGED <<scheduledTask, timers>>
       /\ (initCall.pc # "skipped" /\ initCall'.pc = "skipped") =>
              UNCHANGED <<scheduledTask, timers, schedulerConfig>>
       /\ initCall'.pc \in {"notCalled", "find", "found", "create", "created",
                              "done", "skipped"}]_vars

C22_Witness ==
    /\ initCall.pc = "done"
    /\ initCall.config = <<[enabled |-> TRUE, cronExpr |-> "0 9,21 * * *"]>>
    /\ scheduledTask.running
    /\ timers = 1
    /\ \A u \in UpdateIds : updates[u].pc # "returned"

\* C23: once a scheduler access (initScheduler, getSchedulerConfig or
\* updateSchedulerConfig) has completed with the store available, exactly one
\* SchedulerConfig record exists.
C23_ExactlyOneConfigRecord ==
    (/\ initCall.pc # "notCalled"
     /\ \/ initCall.pc \in {"created", "done"}
        \/ \E g \in GetIds : gets[g].pc = "returned" /\ gets[g].storeOk
        \/ \E u \in UpdateIds : updates[u].pc \in {"upserted", "returned"})
        => Len(schedulerConfig) = 1

\* C24: a command that fails to spawn raises nothing into the pipeline: its
\* 'error' event resolves runCommand with code 1, once (a 'close' event after it
\* changes nothing), and the run ends as it does when that stage exits
\* non-zero: the stage's failure status, or AUTH_REQUIRED when stage 1 printed
\* the marker.
C24_SpawnFailureIsExitCodeOne ==
    [][\A r \in RunIds :
          /\ (~Errored(r) /\ Errored(r)') =>
                /\ trace'[r].codes = Append(trace[r].codes, 1)
                /\ pipes'[r].pc = "final"
                /\ pipes'[r].finalStatus =
                      IF pipes[r].pc = "scrape"
                         /\ HasAuthMarker(Join(pipes[r].commandOutput))
                      THEN "AUTH_REQUIRED"
                      ELSE CASE pipes[r].pc = "scrape" -> "FAILED"
                             [] pipes[r].pc = "enrich" -> "ENRICHMENT_FAILED"
                             [] pipes[r].pc = "process" -> "PROCESSING_FAILED"
          /\ (Errored(r) /\ ~Errored(r)') =>
                UNCHANGED <<pipelineStep, currentRunId, abortRequested, outputBuffer,
                            runs, calls, pipes, trace>>]_vars

\* a run of digits at positions i..j of the text, followed by "seller(s)"
SellersAt(text, i, j) ==
    /\ i <= j /\ j < Len(text)
    /\ \A k \in i..j : text[k] \in Digits
    /\ text[j + 1] = "seller(s)"

\* a run of digits at positions i..j of the text, between "Saved" and "products"
ProductsAt(text, i, j) ==
    /\ 1 < i /\ i <= j /\ j < Len(text)
    /\ text[i - 1] = "Saved"
    /\ \A k \in i..j : text[k] \in Digits
    /\ text[j + 1] = "products"

RECURSIVE Pow10(_)
Pow10(n) == IF n = 0 THEN 1 ELSE 10 * Pow10(n - 1)

\* the number the digits at positions i..j of the text spell
RECURSIVE DecimalValue(_, _, _)
DecimalValue(text, i, j) ==
    IF i > j THEN 0
    ELSE DigitValue(text[i]) * Pow10(j - i) + DecimalValue(text, i + 1, j)

\* C25: the final update stores as sellersProcessed the number of the leftmost
\* "<n> seller(s)" in the run's output and as productsScraped the number of the
\* leftmost "Saved <n> products", and 0 for a pattern the output does not hold;
\* the update is not made to fail by it and stores the status the pipeline
\* decided.
C25_CountersParsedFromOutput ==
    \A r \in RunIds :
        runs[r].completedAt =>
            LET text == runs[r].output
                span == (1..Len(text)) \X (1..Len(text))
                sellers == {m \in span : SellersAt(text, m[1], m[2])}
                products == {m \in span : ProductsAt(text, m[1], m[2])}
            IN  /\ IF sellers = {} THEN runs[r].sellersProcessed = <<0>>
                   ELSE \E m \in sellers :
                          /\ \A n \in sellers : m[1] <= n[1]
                          /\ runs[r].sellersProcessed = <<DecimalValue(text, m[1], m[2])>>
                /\ IF products = {} THEN runs[r].productsScraped = <<0>>
                   ELSE \E m \in products :
                          /\ \A n \in products : m[1] <= n[1]
                          /\ runs[r].productsScraped = <<DecimalValue(text, m[1], m[2])>>
                /\ pipes[r].pc \in {"finalOk", "done"}
                /\ runs[r].status = pipes[r].finalStatus
                /\ runs[r].status \in Terminal

C25_Witness ==
    \E r \in RunIds :
        /\ runs[r].completedAt
        /\ runs[r].sellersProcessed = <<7>>
        /\ runs[r].productsScraped = <<42>>
        /\ runs[r].status = "COMPLETED"

\* C26: pipelineStep changes only from IDLE to SCRAPING, from SCRAPING to
\* ENRICHING, from ENRICHING to PROCESSING, and from a step other than IDLE to
\* IDLE.
C26_StepMovesForward ==
    [][\/ pipelineStep' = pipelineStep
       \/ pipelineStep = "IDLE" /\ pipelineStep' = "SCRAPING"
       \/ pipelineStep = "SCRAPING" /\ pipelineStep' = "ENRICHING"
       \/ pipelineStep = "ENRICHING" /\ pipelineStep' = "PROCESSING"
       \/ pipelineStep # "IDLE" /\ pipelineStep' = "IDLE"]_vars

\* C27: while a run's scrape command is in flight its record says RUNNING;
\* while its enrichment command is in flight its record and pipelineStep both
\* say ENRICHING; while its processing command is in flight both say PROCESSING.
C27_StatusMatchesStageInFlight ==
    \A r \in RunIds :
        /\ pipes[r].pc = "scrape" => runs[r].status = "RUNNING"
        /\ pipes[r].pc = "enrich" =>
                runs[r].status = "ENRICHING" /\ pipelineStep = "ENRICHING"
        /\ pipes[r].pc = "process" =>
                runs[r].status = "PROCESSING" /\ pipelineStep = "PROCESSING"

\* C28: the step in which a startScraper call returns an accepted run id leaves
\* the record of that id in the store with status RUNNING and the call's
\* trigger type, pipelineStep at SCRAPING and currentRunId at that id; the
\* record is in the store before the step that broadcasts the stage-1 event and
\* spawns the scrape command.
C28_AcceptedStartLeavesRunningRecord ==
    [][/\ \A c \in CallIds :
            (calls[c].pc # "returned" /\ calls'[c].pc = "returned" /\ Accepted(c)) =>
                /\ calls'[c].runId = calls[c].runId
                /\ calls[c].runId \in 1..Len(runs')
                /\ runs'[calls[c].runId].status = "RUNNING"
                /\ runs'[calls[c].runId].triggerType = calls[c].triggerType
                /\ pipelineStep' = "SCRAPING"
                /\ currentRunId' = calls[c].runId
       /\ \A r \in 1..Len(trace') :
            (trace'[r].spawned # <<>> /\ (r \in RunIds => trace[r].spawned = <<>>)) =>
                /\ r \in RunIds
                /\ runs[r].status = "RUNNING"
                /\ trace'[r].spawned = <<"scrape">>]_vars

C28_Witness ==
    \E c \in CallIds :
        /\ calls[c].pc = "returned"
        /\ Accepted(c)
        /\ calls[c].triggerType = "SCHEDULED"
        /\ runs[calls[c].runId].triggerType = "SCHEDULED"
        /\ runs[calls[c].runId].status = "RUNNING"
        /\ pipes[calls[c].runId].pc = "scrape"
        /\ pipelineStep = "SCRAPING"
        /\ currentRunId = calls[c].runId

\* C29: when a command exits while an abort is requested, the marker in the
\* stage-1 output still gives AUTH_REQUIRED, and otherwise a non-zero exit code
\* still gives the stage's failure status with the exit-code message: the
\* abort message is given only to a stage that exits with 0.
C29_ExitCodeBeforeAbort ==
    [][\A r \in RunIds, code \in {0, 1} :
          (Exits(r, code) /\ (abortRequested \/ trace[r].stopped)) =>
              LET k == Len(trace'[r].codes) IN
              IF k = 1 /\ trace'[r].marker
              THEN /\ pipes'[r].finalStatus = "AUTH_REQUIRED"
                   /\ pipes'[r].errorMessage = AuthMessage
              ELSE IF code # 0
              THEN /\ pipes'[r].finalStatus = FailStatus(k)
                   /\ pipes'[r].errorMessage # AbortMessage
                   /\ pipes'[r].errorMessage[2] = code
              ELSE pipes'[r].errorMessage = AbortMessage => k < 3]_vars

C29_Witness ==
    \E r \in RunIds :
        /\ abortRequested
        /\ pipes[r].pc = "final"
        /\ trace[r].codes = <<0, 1>>
        /\ pipes[r].finalStatus = "ENRICHMENT_FAILED"
        /\ pipes[r].errorMessage = <<"Enrichment failed with exit code", 1>>

\* C30: a stopScraper() call changes nothing but the abort flag: pipelineStep,
\* currentRunId, the records, the buffer and every pipeline, with its command
\* in flight, are as before; a command in flight after a stop call can still
\* exit with any code, and the pipeline still reads that code: a non-zero
\* code ends the run with the stage's failure and the exit-code message (or
\* with AUTH_REQUIRED on the marker), a zero code never does.
C30_StopIsCooperative ==
    [][/\ Len(stopLog') > Len(stopLog) =>
              /\ UNCHANGED <<pipelineStep, currentRunId, runs, pipes, outputBuffer,
                             calls, listeners, scheduledTask>>
              /\ \A r \in RunIds : InFlight(r) => InFlight(r)'
              /\ abortRequested' = (abortRequested \/ stopLog'[Len(stopLog')] # "false")
       /\ \A r \in RunIds :
              (InFlight(r) /\ trace[r].stopped) =>
                  /\ \A code \in ExitCodes : ENABLED close(r, code)
                  /\ \A code \in {0, 1} : Exits(r, code) =>
                        LET k == Len(trace'[r].codes) IN
                        IF k = 1 /\ trace'[r].marker
                        THEN /\ pipes'[r].pc = "final"
                             /\ pipes'[r].finalStatus = "AUTH_REQUIRED"
                        ELSE IF code # 0
                        THEN /\ pipes'[r].pc = "final"
                             /\ pipes'[r].finalStatus = FailStatus(k)
                             /\ pipes'[r].errorMessage[2] = code
                        ELSE /\ pipes'[r].finalStatus \in {"COMPLETED", "FAILED"}
                             /\ pipes'[r].errorMessage \in
                                   {NoError, AbortMessage, SubscriberError}]_vars

C30_Witness ==
    \E r \in RunIds :
        /\ stopLog # <<>>
        /\ stopLog[1] = "true"
        /\ trace[r].codes = <<0>>
        /\ pipes[r].errorMessage = AbortMessage
        /\ runs[r].status = "FAILED"
        /\ pipes[r].pc = "done"

\* C31: the abort flag is false whenever pipelineStep is IDLE; the step in
\* which a start call returns its run id leaves the flag false, whatever stop
\* calls came before; the flag becomes true only in a stopScraper() call made
\* while a pipeline runs; and a run gets the abort message only at a boundary
\* at which the flag is true.
C31_AbortDoesNotLeak ==
    [][/\ pipelineStep = "IDLE" => ~abortRequested
       /\ pipelineStep' = "IDLE" => ~abortRequested'
       /\ \A c \in CallIds :
             (calls[c].pc = "created" /\ calls'[c].pc = "returned") => ~abortRequested'
       /\ (~abortRequested /\ abortRequested') =>
             /\ Len(stopLog') > Len(stopLog)
             /\ isRunning
       /\ \A r \in RunIds :
             (pipes[r].errorMessage # AbortMessage /\ pipes'[r].errorMessage = AbortMessage)
                 => abortRequested /\ InFlight(r)]_vars

C31_Witness ==
    /\ Len(calls) = 2
    /\ calls[2].overlap = {}
    /\ stopLog = <<"true">>
    /\ pipes[1].pc = "done"
    /\ trace[1].codes = <<0, 0, 0>>
    /\ runs[1].status = "COMPLETED"
    /\ calls[2].pc = "returned"
    /\ calls[2].runId = 2
    /\ pipes[2].pc = "scrape"
    /\ ~abortRequested

\* C32: the output stored by a run's final update is the concatenation, in
\* order of arrival, of the chunks that run's own commands printed (stderr
\* chunks with their prefix): none is missing, none of another run is there.
C32_OutputIsOwnChunks ==
    \A r \in RunIds :
        runs[r].completedAt => runs[r].output = Join(emitted[r])

\* how far along RUNNING -> ENRICHING -> PROCESSING -> terminal a status is
StatusRank(status) ==
    CASE status = "RUNNING" -> 1
      [] status = "ENRICHING" -> 2
      [] status = "PROCESSING" -> 3
      [] status \in Terminal -> 4

\* C33: a run's record changes only in a step of that run's own pipeline, in
\* which that pipeline's awaited update is applied; its status never moves
\* back along RUNNING -> ENRICHING -> PROCESSING -> terminal; and a record with
\* a terminal status never changes again.
C33_RecordWrittenByOwnPipeline ==
    [][\A r \in RunIds :
          /\ runs'[r] # runs[r] =>
                /\ pipes[r].pc \in {"updEnrich", "updProcess", "final"}
                /\ pipes'[r].pc \in {"updEnrichOk", "updProcessOk", "finalOk"}
                /\ \A q \in RunIds \ {r} : runs'[q] = runs[q] /\ pipes'[q] = pipes[q]
                /\ runs'[r].triggerType = runs[r].triggerType
          /\ StatusRank(runs'[r].status) >= StatusRank(runs[r].status)
          /\ runs[r].status \in Terminal => runs'[r] = runs[r]]_vars

C33_Witness ==
    \E r, q \in RunIds :
        /\ r # q
        /\ runs[r].status = "COMPLETED"
        /\ runs[r].completedAt
        /\ pipes[r].pc = "done"
        /\ runs[q].status = "PROCESSING"
        /\ pipes[q].pc = "process"
        /\ calls[2].overlap = {1}

\* C34: a run's pipeline leaves its finally block having broadcast the summary
\* and then the 'complete' event with the final status, both after the final
\* update was applied; chunks are only broadcast for a command that was spawned
\* after its stage's status event, and none after the run's 'complete' event.
C34_EventsInOrder ==
    [][\A r \in RunIds :
          /\ (pipes[r].pc = "finalOk" /\ pipes'[r].pc # "finalOk") =>
                /\ runs[r].completedAt
                /\ trace'[r].complete = <<runs[r].status>>
          /\ trace'[r].complete # <<>> => runs'[r].completedAt
          /\ trace'[r].chunks # trace[r].chunks =>
                /\ InFlight(r)
                /\ trace[r].spawned # <<>>
                /\ trace[r].complete = <<>>]_vars

\* C35: whenever control is with the event loop, isRunning() is true exactly
\* when currentRunId is not null, and then currentRunId is the id of the run
\* whose pipeline is executing.
C35_RunningIffCurrentRun ==
    /\ isRunning <=> currentRunId # NoRun
    /\ currentRunId # NoRun =>
          /\ currentRunId \in RunIds
          /\ \A r \in RunIds \ {currentRunId} :
                pipes[r].pc \in {"notStarted", "done", "rejected"}

\* C36: whenever a record with a non-terminal status is in the store,
\* isRunning() is true.
C36_NonTerminalRecordMeansRunning ==
    \A r \in RunIds : runs[r].status \in NonTerminal => isRunning

\* C37: when initScheduler and every updateSchedulerConfig call have completed
\* (none of them on a store error), a cron task is running exactly when the
\* stored configuration is enabled with a valid expression, and it runs on the
\* stored expression.
C37_TimerAgreesWithConfig ==
    (/\ initCall.pc = "done"
     /\ \A u \in UpdateIds : updates[u].pc = "returned")
        => /\ scheduledTask.running <=>
                 /\ schedulerConfig # <<>>
                 /\ schedulerConfig[1].enabled
                 /\ schedulerConfig[1].cronExpr \in ValidCronExprs
           /\ scheduledTask.running =>
                 scheduledTask.cronExpr = schedulerConfig[1].cronExpr

\* C38: an isRunning(), getCurrentStep() or getCurrentRunId() call changes
\* neither a field of the service nor a record, and returns, in that order,
\* whether pipelineStep is not IDLE, pipelineStep, and currentRunId; so what
\* isRunning() returns is whether getCurrentStep() would not return IDLE.
C38_ObserversArePure ==
    [][observed' # observed =>
          /\ UNCHANGED <<pipelineStep, currentRunId, abortRequested, outputBuffer,
                         listeners, scheduledTask, timers, runs, schedulerConfig,
                         calls, pipes, trace>>
          /\ observed'.call = "isRunning" =>
                observed'.running = (pipelineStep' # "IDLE")
          /\ observed'.call = "getCurrentStep" => observed'.step = pipelineStep'
          /\ observed'.call = "getCurrentRunId" => observed'.runId = currentRunId'
          /\ observed'.call \in {"isRunning", "getCurrentStep", "getCurrentRunId"}]_vars

C38_Witness ==
    /\ observed.call = "isRunning"
    /\ ~observed.running
    /\ pipelineStep = "IDLE"
    /\ \E r \in RunIds : InFlight(r)
    /\ scheduledTask.running

====
